---- MODULE Spec2Model ----
(***************************************************************************)
(* The conversation-turn controller of the voice receptionist panel        *)
(* (src/components/voice-agent-panel.tsx).                                 *)
(*                                                                         *)
(* Text is a sequence of one-character strings, so that trim() is a        *)
(* computation.  Messages shown to the user (error banner) are atoms.      *)
(*                                                                         *)
(* React state is modelled in two layers.  The variables messages, status, *)
(* transcript, pendingInput, error, isProcessing and autoSpeak hold the    *)
(* value last passed to the state setter.  `rendered` holds the values the *)
(* callbacks of the last committed render closed over (handleSend closes   *)
(* over isProcessing and, through synthSpeak, over autoSpeak;              *)
(* handleToggleRecording over status; handleSubmit over pendingInput).     *)
(* A handler dispatched by React (onSubmit, onClick, onChange) commits its *)
(* updates before the browser delivers the next event; updates made from   *)
(* a platform callback (recognition events, the continuation of the fetch) *)
(* are committed by a later Render step.                                   *)
(***************************************************************************)
EXTENDS Integers, Sequences, FiniteSets, TLC

MAX_HISTORY == 12

\* Bounds of the exploration.
MaxTurns == 3
MaxTurnsCap == 14
PriorExchanges == 5
MaxPending == 2

VARIABLES
    messages,         \* useState<Message[]>
    messagesRef,      \* useRef<Message[]>
    status,           \* useState<RecognitionStatus>
    transcript,       \* useState("")  interim transcript
    pendingInput,     \* useState("")  typed text
    error,            \* useState<string | null>
    isProcessing,     \* useState(false)
    autoSpeak,        \* useState(true)
    rendered,         \* values captured by the callbacks of the last render
    speechAllowedRef, \* useRef(false)
    recognitionRef,   \* useRef<SpeechRecognitionLike | null>
    supported,        \* window.SpeechRecognition ?? window.webkitSpeechRecognition
    capture,          \* the platform recognizer's session
    pending,          \* calls to /api/respond awaiting their response
    utterance,        \* window.speechSynthesis: the utterance last started
    nextId,           \* source of unique message ids
    last,             \* the handler that ran last, with its arguments
    served            \* the request the /api/respond handler works on

vars == <<messages, messagesRef, status, transcript, pendingInput, error,
          isProcessing, autoSpeak, rendered, speechAllowedRef, recognitionRef,
          supported, capture, pending, utterance, nextId, last, served>>

----------------------------------------------------------------------------
\* Text

IsSpace(c) == c = " "

RECURSIVE TrimStart(_)
TrimStart(s) ==
    IF s = <<>> THEN s
    ELSE IF IsSpace(Head(s)) THEN TrimStart(Tail(s)) ELSE s

RECURSIVE TrimEnd(_)
TrimEnd(s) ==
    IF s = <<>> THEN s
    ELSE IF IsSpace(s[Len(s)]) THEN TrimEnd(SubSeq(s, 1, Len(s) - 1)) ELSE s

\* String.prototype.trim
Trim(s) == TrimEnd(TrimStart(s))

Empty == <<>>
Blank == <<" ", " ">>
TextA == <<"a">>
PaddedA == <<" ", "a", " ">>
TextB == <<"b">>
ReplyX == <<"x">>
PaddedX == <<" ", "x", " ">>

\* The greeting the panel opens with.
Greeting == <<"h", "i">>

NoError == "null"

----------------------------------------------------------------------------
\* Messages and the history buffer

CreateMessage(id, role, content) ==
    [id |-> id, role |-> role, content |-> content]

SliceHead(seq) ==
    IF Len(seq) <= MAX_HISTORY THEN seq ELSE SubSeq(seq, 1, MAX_HISTORY)

\* Array.prototype.slice(-MAX_HISTORY)
SliceLast(seq) ==
    IF Len(seq) <= MAX_HISTORY THEN seq
    ELSE SubSeq(seq, Len(seq) - MAX_HISTORY + 1, Len(seq))

\* history.map((entry) => ({ role, content }))
RoleContent(seq) ==
    [i \in 1..Len(seq) |-> [role |-> seq[i].role, content |-> seq[i].content]]

Snapshot(p, a, s, t) ==
    [isProcessing |-> p, autoSpeak |-> a, status |-> s, pendingInput |-> t]

\* The commit that ends a handler dispatched by React.
Commit == rendered' = Snapshot(isProcessing', autoSpeak', status', pendingInput')

\* recognitionRef.current before the recognizer is created.
NoRecognition == [created |-> FALSE, isProcessing |-> FALSE, autoSpeak |-> FALSE]

NoCall == [id |-> 0, prompt |-> Empty, history |-> <<>>, autoSpeak |-> FALSE]
NoResponse == [kind |-> "none", status |-> 0, hasError |-> FALSE,
               text |-> Empty, message |-> ""]
NoEvent == [resultIndex |-> 0, results |-> <<>>]

\* No request has reached the /api/respond handler.
NoExchange == [phase |-> "none"]

Ran(op, text, call, response, event) ==
    [op |-> op, text |-> text, call |-> call, response |-> response,
     event |-> event]

----------------------------------------------------------------------------
Init ==
    /\ messages = <<CreateMessage(0, "assistant", Greeting)>>
    /\ messagesRef = messages
    /\ status = "idle"
    /\ transcript = Empty
    /\ pendingInput = Empty
    /\ error = NoError
    /\ isProcessing = FALSE
    /\ autoSpeak = TRUE
    /\ rendered = Snapshot(FALSE, TRUE, "idle", Empty)
    /\ speechAllowedRef = FALSE
    /\ recognitionRef = NoRecognition
    /\ supported \in BOOLEAN
    /\ capture = "inactive"
    /\ pending = {}
    /\ utterance = 0
    /\ nextId = 1
    /\ last = Ran("init", Empty, NoCall, NoResponse, NoEvent)
    /\ served = NoExchange

----------------------------------------------------------------------------
\* handleSend

RejectsBusyOnly(content, closure) == closure.isProcessing

\* if (!content || isProcessing) return;
Rejects(content, closure) == content = Empty \/ closure.isProcessing

RequestBodyRaw(input, content, history) ==
    [prompt |-> input, history |-> RoleContent(history)]

\* JSON.stringify({ prompt: content, history: history.map(...) })
RequestBody(input, content, history) ==
    [prompt |-> content, history |-> RoleContent(history)]

\* handleSend up to the await; `closure` is the render the callback was
\* created in, `tr` the interim transcript when it is called.
HandleSend(input, closure, tr) ==
    LET content == Trim(input)
        userMessage == CreateMessage(nextId, "user", content)
        history == SliceLast(Append(messagesRef, userMessage))
        body == RequestBody(input, content, history)
    IN  IF Rejects(content, closure)
        THEN /\ transcript' = tr
             /\ UNCHANGED <<messages, messagesRef, pendingInput, isProcessing,
                            error, pending, nextId>>
        ELSE /\ messagesRef' = history
             /\ messages' = history
             /\ pendingInput' = Empty
             /\ transcript' = Empty
             /\ isProcessing' = TRUE
             /\ error' = NoError
             /\ pending' = pending \cup
                    {[id |-> nextId, prompt |-> body.prompt,
                      history |-> body.history,
                      autoSpeak |-> closure.autoSpeak]}
             /\ nextId' = nextId + 1

\* The call to /api/respond the running handler issued, if it issued one.
Issued ==
    IF pending' = pending THEN NoCall ELSE CHOOSE c \in pending' \ pending : TRUE

SpeakGateAutoOnly(allowed, auto) == auto

\* synthSpeak returns early unless speechAllowedRef.current && autoSpeak
SpeakGate(allowed, auto) == allowed /\ auto

\* speechSynthesis.cancel(); speechSynthesis.speak(utterance)
SynthSpeak(message, auto) ==
    utterance' = IF SpeakGate(speechAllowedRef, auto) THEN message.id
                 ELSE utterance

AssistantContentRaw(reply) == reply

\* data.reply.trim()
AssistantContent(reply) == Trim(reply)

RequestFailed(st) ==
    CASE st = 400 -> "Request failed (400)"
      [] st = 500 -> "Request failed (500)"
      [] st = 502 -> "Request failed (502)"
      [] OTHER -> "Request failed"

ErrorMessageFallback(response) ==
    CASE response.kind = "http" -> RequestFailed(response.status)
      [] response.kind = "invalid" -> "Invalid response from server."
      [] response.kind = "reject" -> response.message
      [] OTHER -> "Failed to reach the server."

\* The message handed to setError in the catch block.
ErrorMessage(response) ==
    CASE response.kind = "http" ->
            IF response.hasError /\ response.message # ""
            THEN response.message
            ELSE RequestFailed(response.status)
      [] response.kind = "invalid" -> "Invalid response from server."
      [] response.kind = "reject" -> response.message
      [] OTHER -> "Failed to reach the server."

\* handleSend from the await on: the fetch of call c settles with `response`.
Resume(c, response) ==
    /\ c \in pending
    /\ pending' = pending \ {c}
    /\ IF response.kind = "reply"
       THEN LET assistantMessage ==
                    CreateMessage(nextId, "assistant",
                                  AssistantContent(response.text))
                nextMessages == SliceLast(Append(messagesRef, assistantMessage))
            IN  /\ messagesRef' = nextMessages
                /\ messages' = nextMessages
                /\ SynthSpeak(assistantMessage, c.autoSpeak)
                /\ nextId' = nextId + 1
                /\ UNCHANGED error
       ELSE /\ error' = ErrorMessage(response)
            /\ UNCHANGED <<messages, messagesRef, utterance, nextId>>
    /\ isProcessing' = FALSE
    /\ last' = Ran("resume", Empty, c, response, NoEvent)
    /\ UNCHANGED served
    /\ UNCHANGED <<status, transcript, pendingInput, autoSpeak, rendered,
                   speechAllowedRef, recognitionRef, supported, capture>>

\* disabled={isProcessing || !pendingInput.trim()} on the submit button
SubmitDisabled == rendered.isProcessing \/ Trim(rendered.pendingInput) = Empty

\* onSubmit of the form
HandleSubmit ==
    /\ ~SubmitDisabled
    /\ HandleSend(rendered.pendingInput, rendered, transcript)
    /\ last' = Ran("submit", rendered.pendingInput, Issued, NoResponse, NoEvent)
    /\ UNCHANGED served
    /\ UNCHANGED <<status, autoSpeak, speechAllowedRef, recognitionRef,
                   supported, capture, utterance>>
    /\ Commit

\* onChange of the textarea
OnChange(text) ==
    /\ text # pendingInput
    /\ pendingInput' = text
    /\ last' = Ran("change", text, NoCall, NoResponse, NoEvent)
    /\ UNCHANGED served
    /\ UNCHANGED <<messages, messagesRef, status, transcript, error,
                   isProcessing, autoSpeak, speechAllowedRef, recognitionRef,
                   supported, capture, pending, utterance, nextId>>
    /\ Commit

\* onClick of the auto-voice button: setAutoSpeak((value) => !value)
ToggleAutoSpeak ==
    /\ autoSpeak' = ~autoSpeak
    /\ last' = Ran("autoSpeak", Empty, NoCall, NoResponse, NoEvent)
    /\ UNCHANGED served
    /\ UNCHANGED <<messages, messagesRef, status, transcript, pendingInput,
                   error, isProcessing, speechAllowedRef, recognitionRef,
                   supported, capture, pending, utterance, nextId>>
    /\ Commit

\* The window's pointerdown listener, which removes itself when it runs.
HandleClick ==
    /\ ~speechAllowedRef
    /\ speechAllowedRef' = TRUE
    /\ last' = Ran("pointerdown", Empty, NoCall, NoResponse, NoEvent)
    /\ UNCHANGED served
    /\ UNCHANGED <<messages, messagesRef, status, transcript, pendingInput,
                   error, isProcessing, autoSpeak, rendered, recognitionRef,
                   supported, capture, pending, utterance, nextId>>

\* A render scheduled by updates made outside a React handler: the callbacks
\* are re-created, and the effect copies messages into messagesRef.
Render ==
    /\ rendered # Snapshot(isProcessing, autoSpeak, status, pendingInput)
    /\ rendered' = Snapshot(isProcessing, autoSpeak, status, pendingInput)
    /\ messagesRef' = messages
    /\ last' = Ran("render", Empty, NoCall, NoResponse, NoEvent)
    /\ UNCHANGED served
    /\ UNCHANGED <<messages, status, transcript, pendingInput, error,
                   isProcessing, autoSpeak, speechAllowedRef, recognitionRef,
                   supported, capture, pending, utterance, nextId>>

----------------------------------------------------------------------------
\* Speech capture

\* The loop of recognition.onresult: the transcripts of the fragments from
\* index i on (1-based) whose isFinal is `final`, concatenated.
RECURSIVE Collect(_, _, _)
Collect(results, i, final) ==
    IF i > Len(results) THEN Empty
    ELSE (IF results[i].isFinal = final THEN results[i].transcript ELSE Empty)
         \o Collect(results, i + 1, final)

FinalText(event) == Collect(event.results, event.resultIndex + 1, TRUE)
InterimText(event) == Collect(event.results, event.resultIndex + 1, FALSE)

Fragment(final, text) == [isFinal |-> final, transcript |-> text]
RecognitionEvent(index, results) == [resultIndex |-> index, results |-> results]

\* ensureRecognition when the capability exists: the recognizer is created
\* once, and its onresult keeps the handleSend of the render it was created in.
EnsureRecognition ==
    IF recognitionRef.created THEN recognitionRef
    ELSE [created |-> TRUE, isProcessing |-> rendered.isProcessing,
          autoSpeak |-> rendered.autoSpeak]

InvalidState == "InvalidStateError"
NotSupported == "Voice input is not supported in this browser."

\* recognition.stop(): a running session winds down, its end event to come.
StopCapture(c) == IF c \in {"starting", "active"} THEN "stopping" ELSE c

UnavailableNever == FALSE

\* ensureRecognition returns null: no recognizer yet and no constructor.
Unavailable == ~recognitionRef.created /\ ~supported

\* onClick of the microphone button
HandleToggleRecording ==
    /\ IF Unavailable
       THEN /\ error' = NotSupported
            /\ UNCHANGED <<recognitionRef, status, capture>>
       ELSE /\ recognitionRef' = EnsureRecognition
            /\ IF rendered.status = "listening"
               THEN /\ capture' = StopCapture(capture)
                    /\ status' = "idle"
                    /\ UNCHANGED error
               ELSE IF capture = "inactive"
                    THEN /\ status' = "initializing"
                         /\ capture' = "starting"
                         /\ UNCHANGED error
                    ELSE \* start() on a session that has not ended throws
                         /\ error' = InvalidState
                         /\ status' = "idle"
                         /\ UNCHANGED capture
    /\ last' = Ran("toggle", Empty, NoCall, NoResponse, NoEvent)
    /\ UNCHANGED served
    /\ UNCHANGED <<messages, messagesRef, transcript, pendingInput,
                   isProcessing, autoSpeak, speechAllowedRef, supported,
                   pending, utterance, nextId>>
    /\ Commit

\* recognition.onstart
OnStart ==
    /\ recognitionRef.created
    /\ capture = "starting"
    /\ capture' = "active"
    /\ status' = "listening"
    /\ transcript' = Empty
    /\ error' = NoError
    /\ last' = Ran("onstart", Empty, NoCall, NoResponse, NoEvent)
    /\ UNCHANGED served
    /\ UNCHANGED <<messages, messagesRef, pendingInput, isProcessing, autoSpeak,
                   rendered, speechAllowedRef, recognitionRef, supported,
                   pending, utterance, nextId>>

RecognitionErrorGeneric(code) == "Voice recognition error."

\* event.error || "Voice recognition error."
RecognitionErrorMessage(code) ==
    IF code # "" THEN code ELSE "Voice recognition error."

\* recognition.onerror
OnError(code) ==
    /\ recognitionRef.created
    /\ capture \in {"starting", "active", "stopping"}
    /\ capture' = "ending"
    /\ status' = "idle"
    /\ error' = RecognitionErrorMessage(code)
    /\ last' = Ran("onerror", Empty, NoCall,
                   [NoResponse EXCEPT !.message = code], NoEvent)
    /\ UNCHANGED served
    /\ UNCHANGED <<messages, messagesRef, transcript, pendingInput,
                   isProcessing, autoSpeak, rendered, speechAllowedRef,
                   recognitionRef, supported, pending, utterance, nextId>>

InterimTranscriptExtended(event) == transcript \o Trim(InterimText(event))

\* setTranscript(interimText.trim())
InterimTranscript(event) == Trim(InterimText(event))

\* recognition.onresult; the recognizer is not continuous, so a final result
\* ends the session.
OnResult(event) ==
    /\ recognitionRef.created
    /\ capture \in {"active", "stopping"}
    /\ IF FinalText(event) # Empty
       THEN /\ HandleSend(Trim(FinalText(event)), recognitionRef, Empty)
            /\ capture' = "ending"
       ELSE /\ transcript' = InterimTranscript(event)
            /\ UNCHANGED <<messages, messagesRef, pendingInput, isProcessing,
                           error, pending, nextId, capture>>
    /\ last' = Ran("onresult", FinalText(event), Issued, NoResponse, event)
    /\ UNCHANGED served
    /\ UNCHANGED <<status, autoSpeak, rendered, speechAllowedRef,
                   recognitionRef, supported, utterance>>

\* recognition.onend
OnEnd ==
    /\ recognitionRef.created
    /\ capture \in {"active", "stopping", "ending"}
    /\ capture' = "inactive"
    /\ status' = "idle"
    /\ last' = Ran("onend", Empty, NoCall, NoResponse, NoEvent)
    /\ UNCHANGED served
    /\ UNCHANGED <<messages, messagesRef, transcript, pendingInput, error,
                   isProcessing, autoSpeak, rendered, speechAllowedRef,
                   recognitionRef, supported, pending, utterance, nextId>>

----------------------------------------------------------------------------
\* Inputs

Reply(text) == [kind |-> "reply", status |-> 200, hasError |-> FALSE,
                text |-> text, message |-> ""]
Invalid == [kind |-> "invalid", status |-> 200, hasError |-> FALSE,
            text |-> Empty, message |-> ""]
Http(st, hasError, message) ==
    [kind |-> "http", status |-> st, hasError |-> hasError, text |-> Empty,
     message |-> message]
RejectError(message) == [kind |-> "reject", status |-> 0, hasError |-> FALSE,
                         text |-> Empty, message |-> message]
RejectOther == [kind |-> "rejectOther", status |-> 0, hasError |-> FALSE,
                text |-> Empty, message |-> ""]

Texts == {Blank, PaddedA}
Responses ==
    {Reply(PaddedX), Reply(Blank), Invalid, Http(500, TRUE, "boom"),
     Http(500, TRUE, ""), Http(502, FALSE, ""), RejectError("Failed to fetch"),
     RejectOther}
Events ==
    {RecognitionEvent(0, <<Fragment(FALSE, PaddedA)>>),
     RecognitionEvent(0, <<Fragment(TRUE, TextA)>>),
     RecognitionEvent(0, <<Fragment(TRUE, Blank)>>)}
ErrorCodes == {"no-speech", ""}

SpeakTexts == {TextA}
SpeakResponses == {Reply(PaddedX), Http(502, FALSE, "")}
SpeakEvents == {RecognitionEvent(0, <<Fragment(TRUE, TextA)>>)}

CapTexts == {PaddedA}
CapResponses == {Reply(ReplyX), Http(502, FALSE, "")}
CapEvents == {RecognitionEvent(0, <<Fragment(TRUE, TextB)>>)}

\* The exploration stops creating turns at maxTurns and issuing calls at
\* MaxPending.
Within(maxTurns) ==
    /\ nextId' <= maxTurns + 1
    /\ Cardinality(pending') <= MaxPending

----------------------------------------------------------------------------
\* The turn controller with typed and spoken input.
NextTurn ==
    \/ \E text \in Texts : OnChange(text)
    \/ HandleSubmit /\ Within(MaxTurns)
    \/ \E c \in pending : \E response \in Responses :
            Resume(c, response) /\ Within(MaxTurns)
    \/ HandleToggleRecording
    \/ OnStart
    \/ \E event \in Events : OnResult(event) /\ Within(MaxTurns)
    \/ OnEnd
    \/ Render

SpecTurn == Init /\ [][NextTurn]_vars

\* The turn controller with the speech output gates.
NextSpeak ==
    \/ \E text \in SpeakTexts : OnChange(text)
    \/ HandleSubmit /\ Within(MaxTurns)
    \/ \E c \in pending : \E response \in SpeakResponses :
            Resume(c, response) /\ Within(MaxTurns)
    \/ ToggleAutoSpeak
    \/ HandleClick
    \/ HandleToggleRecording
    \/ OnStart
    \/ \E event \in SpeakEvents : OnResult(event) /\ Within(MaxTurns)
    \/ OnEnd
    \/ Render

SpecSpeak == Init /\ [][NextSpeak]_vars

\* A conversation of n earlier turns, alternately typed and answered, built
\* the way handleSend builds it.
RECURSIVE Conversation(_)
Conversation(n) ==
    IF n = 0 THEN <<CreateMessage(0, "assistant", Greeting)>>
    ELSE SliceLast(Append(Conversation(n - 1),
            IF n % 2 = 1 THEN CreateMessage(n, "user", TextA)
            ELSE CreateMessage(n, "assistant", ReplyX)))

\* The panel after PriorExchanges answered exchanges, everything rendered.
InitCap ==
    /\ messages = Conversation(2 * PriorExchanges)
    /\ messagesRef = messages
    /\ status = "idle"
    /\ transcript = Empty
    /\ pendingInput = Empty
    /\ error = NoError
    /\ isProcessing = FALSE
    /\ autoSpeak = TRUE
    /\ rendered = Snapshot(FALSE, TRUE, "idle", Empty)
    /\ speechAllowedRef = FALSE
    /\ recognitionRef = NoRecognition
    /\ supported = TRUE
    /\ capture = "inactive"
    /\ pending = {}
    /\ utterance = 0
    /\ nextId = 2 * PriorExchanges + 1
    /\ last = Ran("render", Empty, NoCall, NoResponse, NoEvent)
    /\ served = NoExchange

\* Typed exchanges only, each answered.  InitCap is a state of this
\* specification: TLC finds the invariant ~InitCap violated under SpecTyped.
NextTyped ==
    \/ OnChange(PaddedA)
    \/ HandleSubmit /\ Within(2 * PriorExchanges)
    \/ \E c \in pending :
            Resume(c, Reply(ReplyX)) /\ Within(2 * PriorExchanges)
    \/ Render

SpecTyped == Init /\ [][NextTyped]_vars

\* The turn controller around the cap of the history buffer.
NextCap ==
    \/ \E text \in CapTexts : OnChange(text)
    \/ HandleSubmit /\ Within(MaxTurnsCap)
    \/ \E c \in pending : \E response \in CapResponses :
            Resume(c, response) /\ Within(MaxTurnsCap)
    \/ HandleToggleRecording
    \/ OnStart
    \/ \E event \in CapEvents : OnResult(event) /\ Within(MaxTurnsCap)
    \/ OnEnd
    \/ Render

SpecCap == InitCap /\ [][NextCap]_vars

----------------------------------------------------------------------------
\* The speech capture adapter with every platform callback.

VoiceTexts == {TextA}
VoiceResponses == {Reply(ReplyX), Http(502, FALSE, "")}
VoiceEvents ==
    {RecognitionEvent(0, <<Fragment(FALSE, PaddedA)>>),
     RecognitionEvent(0, <<Fragment(FALSE, TextA), Fragment(FALSE, TextB)>>),
     RecognitionEvent(1, <<Fragment(TRUE, TextB), Fragment(FALSE, PaddedA)>>),
     RecognitionEvent(0, <<Fragment(TRUE, TextA)>>),
     RecognitionEvent(0, <<Fragment(TRUE, TextA), Fragment(FALSE, TextB)>>),
     RecognitionEvent(0, <<Fragment(TRUE, Empty), Fragment(FALSE, PaddedA)>>),
     RecognitionEvent(0, <<Fragment(TRUE, Blank)>>)}

NextVoice ==
    \/ \E text \in VoiceTexts : OnChange(text)
    \/ HandleSubmit /\ Within(MaxTurns)
    \/ \E c \in pending : \E response \in VoiceResponses :
            Resume(c, response) /\ Within(MaxTurns)
    \/ HandleToggleRecording
    \/ OnStart
    \/ \E code \in ErrorCodes : OnError(code)
    \/ \E event \in VoiceEvents : OnResult(event) /\ Within(MaxTurns)
    \/ OnEnd
    \/ Render

SpecVoice == Init /\ [][NextVoice]_vars

----------------------------------------------------------------------------
\* The /api/respond route handler

\* rawHistory.slice(-12)
HistoryWindow == 12

SystemMessage == [role |-> "system", content |-> <<"SYSTEM_PROMPT">>]
FallbackReply ==
    <<"I'm sorry, but I couldn't generate a response right now.">>

\* The values request.json() can yield for an entry of body.history.
Entry(role, content) ==
    [null |-> FALSE, role |-> role, isString |-> TRUE, content |-> content]
NullItem == [null |-> TRUE, role |-> "", isString |-> FALSE, content |-> Empty]
NonString(role) ==
    [null |-> FALSE, role |-> role, isString |-> FALSE, content |-> Empty]

\* The request bodies: text that is not JSON, the JSON value null, and a JSON
\* value with (or without) the properties prompt and history.
InvalidJson ==
    [json |-> "invalid", promptIsString |-> FALSE, prompt |-> Empty,
     historyIsArray |-> FALSE, history |-> <<>>]
JsonNull ==
    [json |-> "null", promptIsString |-> FALSE, prompt |-> Empty,
     historyIsArray |-> FALSE, history |-> <<>>]
JsonObject(promptIsString, prompt, historyIsArray, history) ==
    [json |-> "object", promptIsString |-> promptIsString, prompt |-> prompt,
     historyIsArray |-> historyIsArray, history |-> history]

\* What request.json() yields for the body the panel serialises.
Parsed(body) ==
    JsonObject(TRUE, body.prompt, TRUE,
               [i \in 1..Len(body.history) |->
                    Entry(body.history[i].role, body.history[i].content)])

\* The outcomes of the fetch to the model: `depth` is how far
\* choices?.[0]?.message?.content is present.
UpstreamReply(depth, content) ==
    [kind |-> "ok", status |-> 200, depth |-> depth, content |-> content,
     message |-> ""]
UpstreamBadJson ==
    [kind |-> "badJson", status |-> 200, depth |-> "none", content |-> Empty,
     message |-> "Unexpected token"]
UpstreamNotOk(st, message) ==
    [kind |-> "notOk", status |-> st, depth |-> "none", content |-> Empty,
     message |-> message]
UpstreamThrows(message) ==
    [kind |-> "throws", status |-> 0, depth |-> "none", content |-> Empty,
     message |-> message]
UpstreamThrowsOther ==
    [kind |-> "throwsOther", status |-> 0, depth |-> "none",
     content |-> Empty, message |-> ""]

\* The responses of the handler; `called` tells whether the model was called
\* and `messages` what was forwarded to it.
NoResult ==
    [kind |-> "none", status |-> 0, reply |-> Empty, error |-> "",
     called |-> FALSE, messages |-> <<>>]
JsonReply(reply, forwarded) ==
    [kind |-> "reply", status |-> 200, reply |-> reply, error |-> "",
     called |-> TRUE, messages |-> forwarded]
JsonError(st, message, called, forwarded) ==
    [kind |-> "error", status |-> st, reply |-> Empty, error |-> message,
     called |-> called, messages |-> forwarded]
\* An exception that leaves POST: the framework answers, not the handler.
Uncaught(message) ==
    [kind |-> "uncaught", status |-> 500, reply |-> Empty, error |-> message,
     called |-> FALSE, messages |-> <<>>]

ValidItemAnyRole(item) ==
    ~item.null /\ item.isString /\ Trim(item.content) # Empty

\* (role === "user" || role === "assistant") && typeof content === "string"
\* && content.trim(), for an item that passed `if (!item) continue`
ValidItem(item) ==
    /\ ~item.null
    /\ item.role \in {"user", "assistant"}
    /\ item.isString
    /\ Trim(item.content) # Empty

\* Array.prototype.slice(-12)
WindowLast(seq) ==
    IF Len(seq) <= HistoryWindow THEN seq
    ELSE SubSeq(seq, Len(seq) - HistoryWindow + 1, Len(seq))

\* The loop that fills `conversation` from the window.
RECURSIVE Kept(_)
Kept(items) ==
    IF items = <<>> THEN <<>>
    ELSE LET item == Head(items)
             rest == Kept(Tail(items))
         IN  IF ValidItem(item)
             THEN <<[role |-> item.role, content |-> Trim(item.content)]>>
                  \o rest
             ELSE rest

\* Array.isArray(body.history) ? body.history : []
RawHistory(body) == IF body.historyIsArray THEN body.history ELSE <<>>

ConversationOf(body) == Kept(WindowLast(RawHistory(body)))

NeedsPromptAlways(conv, prompt) == TRUE

\* !lastMessage || lastMessage.content !== prompt
\*              || lastMessage.role !== "user"
NeedsPrompt(conv, prompt) ==
    \/ conv = <<>>
    \/ conv[Len(conv)].content # prompt
    \/ conv[Len(conv)].role # "user"

\* The `messages` sent to the model.
ForwardedMessages(body, prompt) ==
    LET conv == ConversationOf(body)
    IN  IF NeedsPrompt(conv, prompt)
        THEN Append(<<SystemMessage>> \o conv,
                    [role |-> "user", content |-> prompt])
        ELSE <<SystemMessage>> \o conv

UpstreamModelError(st) ==
    CASE st = 401 -> "Upstream model error (401)."
      [] st = 503 -> "Upstream model error (503)."
      [] OTHER -> "Upstream model error."

\* payload.choices?.[0]?.message?.content?.trim() ?? fallback
ReplyOf(upstream) ==
    IF upstream.depth = "content" THEN Trim(upstream.content)
    ELSE FallbackReply

\* The try block around the fetch to the model.
CallModel(forwarded, upstream) ==
    CASE upstream.kind = "ok" -> JsonReply(ReplyOf(upstream), forwarded)
      [] upstream.kind = "notOk" ->
            JsonError(502,
                      IF upstream.message # "" THEN upstream.message
                      ELSE UpstreamModelError(upstream.status),
                      TRUE, forwarded)
      [] upstream.kind = "throwsOther" ->
            JsonError(500, "Unexpected server error.", TRUE, forwarded)
      [] OTHER -> JsonError(500, upstream.message, TRUE, forwarded)

\* typeof body.prompt === "string" ? body.prompt.trim() : ""
PromptOf(body) == IF body.promptIsString THEN Trim(body.prompt) ELSE Empty

POST(key, body, upstream) ==
    IF ~key
    THEN JsonError(500, "Server misconfigured: missing OpenAI API key.",
                   FALSE, <<>>)
    ELSE IF body.json = "invalid"
    THEN JsonError(400, "Invalid JSON body.", FALSE, <<>>)
    ELSE IF body.json = "null"
    THEN \* body.prompt on null raises a TypeError outside every try block
         Uncaught("TypeError")
    ELSE IF PromptOf(body) = Empty
    THEN JsonError(400, "Provide a prompt message.", FALSE, <<>>)
    ELSE CallModel(ForwardedMessages(body, PromptOf(body)), upstream)

Request(key, body, upstream) ==
    [phase |-> "received", key |-> key, body |-> body, upstream |-> upstream,
     result |-> NoResult]

\* The longest history a request supplies.
MaxSupplied == 14

\* Supplied histories: entry i is a valid turn with a content of its own,
\* except at the positions in `bad`, which hold `item`.
Unary(i) == [k \in 1..i |-> "i"]
Turn(i) == Entry(IF i % 2 = 1 THEN "user" ELSE "assistant", Unary(i))
Supplied(n, bad, item) == [i \in 1..n |-> IF i \in bad THEN item ELSE Turn(i)]

InvalidItems ==
    {NullItem, Entry("system", TextA), Entry("user", Blank),
     NonString("assistant")}
SuppliedLengths == {0, 1, HistoryWindow, HistoryWindow + 1, MaxSupplied}
SuppliedHistories ==
    {Supplied(n, bad \cap 1..n, item) :
        n \in SuppliedLengths,
        bad \in {{}, {1, 2}, {MaxSupplied - 1}, {HistoryWindow + 1},
                 {3, MaxSupplied}},
        item \in InvalidItems}
    \cup {<<Entry("assistant", TextB), Entry("user", PaddedA)>>,
          <<Entry("user", TextA), NullItem>>,
          <<Entry("assistant", TextA)>>,
          <<Entry("user", TextB)>>}

\* The requests the panel sends after n earlier turns.
PanelRequest(n) ==
    Parsed(RequestBody(PaddedA, Trim(PaddedA),
               SliceLast(Append(Conversation(n),
                                CreateMessage(n + 1, "user", Trim(PaddedA))))))

Bodies ==
    {InvalidJson, JsonNull, JsonObject(FALSE, Empty, FALSE, <<>>),
     JsonObject(FALSE, Empty, TRUE, <<Entry("user", TextA)>>)}
    \cup {JsonObject(TRUE, p, FALSE, <<>>) : p \in {Empty, Blank, PaddedA}}
    \cup {JsonObject(TRUE, p, TRUE, h) :
            p \in {Blank, PaddedA}, h \in SuppliedHistories}
    \cup {PanelRequest(n) : n \in {0, 2, 2 * PriorExchanges, MAX_HISTORY}}

Upstreams ==
    {UpstreamReply("content", PaddedX), UpstreamReply("content", Blank),
     UpstreamReply("content", Empty), UpstreamReply("message", Empty),
     UpstreamReply("choice", Empty), UpstreamReply("none", Empty),
     UpstreamBadJson, UpstreamNotOk(401, "Incorrect API key"),
     UpstreamNotOk(503, ""), UpstreamThrows("fetch failed"),
     UpstreamThrowsOther}

\* A request reaches the handler.
Receive(key, body, upstream) ==
    /\ served.phase = "none"
    /\ served' = Request(key, body, upstream)
    /\ UNCHANGED <<messages, messagesRef, status, transcript, pendingInput,
                   error, isProcessing, autoSpeak, rendered, speechAllowedRef,
                   recognitionRef, supported, capture, pending, utterance,
                   nextId, last>>

\* The handler runs to its response.
Answer ==
    /\ served.phase = "received"
    /\ served' = [served EXCEPT
                    !.phase = "answered",
                    !.result = POST(served.key, served.body, served.upstream)]
    /\ UNCHANGED <<messages, messagesRef, status, transcript, pendingInput,
                   error, isProcessing, autoSpeak, rendered, speechAllowedRef,
                   recognitionRef, supported, capture, pending, utterance,
                   nextId, last>>

NextRoute ==
    \/ \E key \in BOOLEAN : \E body \in Bodies : \E upstream \in Upstreams :
            Receive(key, body, upstream)
    \/ Answer

SpecRoute == Init /\ [][NextRoute]_vars

----------------------------------------------------------------------------
\* Properties

Last(seq) == seq[Len(seq)]

\* C1: at most one call to /api/respond is pending at any time, whatever the
\* interleaving of form submits, final recognition events, renders and
\* network completions.
C1_AtMostOnePending == Cardinality(pending) <= 1

\* C2: when a final recognition event whose transcript T was appended as a
\* user turn is followed, before any render, by a form submission of the same
\* text T, the submission appends no second turn and issues no second call.
C2_OneTurnForSameText ==
    [][(/\ last.op = "onresult"
        /\ last.call # NoCall
        /\ last'.op = "submit"
        /\ Trim(last'.text) = last.call.prompt)
       => (messagesRef' = messagesRef /\ pending' = pending)]_vars

\* C3: the history buffer holds at most MAX_HISTORY turns, and they are
\* exactly the most recently created turns in the order of their creation:
\* every created turn is in the buffer unless MAX_HISTORY newer ones exist.
C3_BufferIsMostRecent ==
    /\ messages = messagesRef
    /\ Len(messagesRef) <= MAX_HISTORY
    /\ Len(messagesRef) = (IF nextId < MAX_HISTORY THEN nextId ELSE MAX_HISTORY)
    /\ \A i \in 1..Len(messagesRef) :
            messagesRef[i].id = nextId - Len(messagesRef) + i - 1

C3_EvictedTwice ==
    /\ Len(messagesRef) = MAX_HISTORY
    /\ messagesRef[1].id >= 2
    /\ last.op = "resume"
    /\ last.response.kind = "reply"
    /\ Last(messagesRef).role = "assistant"
    /\ pending # {}

\* C4: a submit whose text is empty after trimming changes nothing: no turn,
\* no call, and the in-flight flag, the error, the typed input and the
\* interim transcript (as it was when submit was called: onresult has
\* cleared it) stay as they were.
C4_BlankSubmitIsNoOp ==
    [][(/\ last'.op \in {"submit", "onresult"}
        /\ last'.text # Empty
        /\ Trim(last'.text) = Empty)
       => (/\ UNCHANGED <<messages, messagesRef, pending, isProcessing, error,
                          pendingInput, nextId>>
           /\ transcript' = (IF last'.op = "onresult" THEN Empty
                             ELSE transcript))]_vars

C4_BlankFinalWhileIdle ==
    /\ last.op = "onresult"
    /\ last.text = Blank
    /\ ~recognitionRef.isProcessing
    /\ ~isProcessing
    /\ error # NoError
    /\ pendingInput # Empty

\* C5: when the call of an accepted submit succeeds with a reply, exactly one
\* turn is appended, an assistant turn holding the trimmed reply; it comes
\* after the user turn of that call, and the in-flight flag is cleared.
C5_ReplyAppendsOneAssistantTurn ==
    [][(last'.op = "resume" /\ last'.response.kind = "reply")
       => LET m == [id |-> nextId, role |-> "assistant",
                    content |-> Trim(last'.response.text)]
          IN  /\ messagesRef' = SliceLast(messagesRef \o <<m>>)
              /\ messages' = messagesRef'
              /\ \A i \in 1..Len(messagesRef') :
                    messagesRef'[i].id = last'.call.id
                        => /\ i < Len(messagesRef')
                           /\ messagesRef'[i].role = "user"
              /\ isProcessing' = FALSE]_vars

C5_PaddedReplyAppended ==
    /\ last.op = "resume"
    /\ last.response = Reply(PaddedX)
    /\ Len(messagesRef) >= 3
    /\ Last(messagesRef).content = ReplyX
    /\ messagesRef[Len(messagesRef) - 1].id = last.call.id
    /\ ~isProcessing

\* C6 as claimed: when the call of an accepted submit fails, the buffer is
\* unchanged, the in-flight flag is cleared and the error is set; for a
\* non-2xx response with body {error: E} the error is exactly E.
C6_FailureSurfacesPayloadError ==
    [][(last'.op = "resume" /\ last'.response.kind # "reply")
       => /\ UNCHANGED <<messages, messagesRef>>
          /\ isProcessing' = FALSE
          /\ error' # NoError
          /\ (last'.response.kind = "http" /\ last'.response.hasError)
                => error' = last'.response.message]_vars

\* C6 as amended: the same, with the error exactly E when E is not empty, and
\* "Request failed (<status>)" when E is empty.
C6_FailureSurfacesNonEmptyPayloadError ==
    [][(last'.op = "resume" /\ last'.response.kind # "reply")
       => /\ UNCHANGED <<messages, messagesRef>>
          /\ isProcessing' = FALSE
          /\ error' # NoError
          /\ (/\ last'.response.kind = "http"
              /\ last'.response.hasError
              /\ last'.response.message # "")
                => error' = last'.response.message
          /\ (/\ last'.response.kind = "http"
              /\ last'.response.hasError
              /\ last'.response.message = "")
                => error' = RequestFailed(last'.response.status)]_vars

C6_BoomSurfaced ==
    /\ last.op = "resume"
    /\ last.response = Http(500, TRUE, "boom")
    /\ error = "boom"
    /\ \E i \in 1..Len(messagesRef) : messagesRef[i].id = last.call.id
    /\ Last(messagesRef).role = "user"
    /\ ~isProcessing

\* C7: whenever a call is issued, the last entry of the buffer and the last
\* entry of the history sent are the user turn just created, whose content
\* is the prompt sent; the history sent is the buffer, at most MAX_HISTORY long.
C7_LastEntryIsPrompt ==
    [][\A c \in pending' \ pending :
          /\ c.history = RoleContent(messagesRef')
          /\ Len(c.history) <= MAX_HISTORY
          /\ Last(c.history) = [role |-> "user", content |-> c.prompt]
          /\ Last(messagesRef') =
                [id |-> c.id, role |-> "user", content |-> c.prompt]
          /\ c.prompt = Trim(last'.text)]_vars

C7_IssuedWithEviction ==
    /\ last.op \in {"submit", "onresult"}
    /\ last.call # NoCall
    /\ last.text = PaddedA
    /\ Len(last.call.history) = MAX_HISTORY
    /\ messagesRef[1].id >= 1

\* C8: no utterance is started while the auto-speak preference is off.
C8_SilentWhenAutoSpeakOff == [][utterance' # utterance => autoSpeak]_vars

\* C9: no utterance is started before the first pointerdown, and once the
\* pointerdown has occurred the gate stays open.
C9_NoSpeechBeforeInteraction ==
    [][/\ utterance' # utterance => speechAllowedRef
       /\ speechAllowedRef => speechAllowedRef']_vars

C9_ReplyBeforeInteraction ==
    /\ last.op = "resume"
    /\ last.response.kind = "reply"
    /\ last.call.autoSpeak
    /\ autoSpeak
    /\ ~speechAllowedRef
    /\ utterance = 0

\* C10: a final recognition result with non-empty text that arrives while no
\* turn is in flight (no call pending, the flag false and rendered false)
\* appends a user turn with that text and issues one call.
C10_FinalResultIsSent ==
    [][(/\ last'.op = "onresult"
        /\ Trim(last'.text) # Empty
        /\ ~isProcessing
        /\ ~rendered.isProcessing
        /\ pending = {})
       => (/\ Cardinality(pending') = 1
           /\ Last(messagesRef').role = "user"
           /\ Last(messagesRef').content = Trim(last'.text))]_vars

\* C11: the recognition status only moves idle -> initializing -> listening
\* -> idle, or initializing -> idle when the start fails or the platform
\* reports an error; it never moves from idle straight to listening; it is
\* listening only while the platform session has started and not yet ended;
\* and a microphone toggle while capture is active sets it to idle and stops
\* the capture.
StatusSteps ==
    {<<"idle", "initializing">>, <<"initializing", "listening">>,
     <<"listening", "idle">>, <<"initializing", "idle">>}

C11_OnlyLegalSteps ==
    [][status' # status => <<status, status'>> \in StatusSteps]_vars
C11_ListeningOnlyWhileCapturing ==
    status = "listening" => capture \in {"active", "ending"}
C11_ToggleStopsCapture ==
    [][(last'.op = "toggle" /\ capture = "active")
       => (status' = "idle" /\ capture' # "active")]_vars

C11_StatusFollowsCapture ==
    /\ C11_OnlyLegalSteps
    /\ []C11_ListeningOnlyWhileCapturing
    /\ C11_ToggleStopsCapture

\* The request has no usable prompt: its body is not JSON, or is not a value
\* with a string property `prompt` that is non-empty after trimming.
Malformed(body) ==
    \/ body.json # "object"
    \/ ~body.promptIsString
    \/ Trim(body.prompt) = Empty

\* C12: the handler answers every request itself with exactly one of
\* 200 {reply}, 400 {error} (body not JSON, or prompt empty after trimming),
\* 500 {error} (API key missing, or an exception during the call to the
\* model) and 502 {error} (the model answered non-OK); it calls the model
\* only when the key is present, the body is JSON and the trimmed prompt is
\* non-empty; and a configured server answers a malformed or empty input
\* with 400.
C12_OneOfFourAnswers ==
    served.phase = "answered" =>
        LET r == served.result
            b == served.body
            u == served.upstream
        IN  /\ <<r.status, r.kind>> \in
                    {<<200, "reply">>, <<400, "error">>, <<500, "error">>,
                     <<502, "error">>}
            /\ r.status = 200 => (r.called /\ u.kind = "ok")
            /\ r.status = 400 => (~r.called /\ Malformed(b))
            /\ r.status = 500 =>
                    \/ ~served.key /\ ~r.called
                    \/ r.called /\ u.kind \in {"throws", "throwsOther", "badJson"}
            /\ r.status = 502 => (r.called /\ u.kind = "notOk")
            /\ r.called => (served.key /\ ~Malformed(b))
            /\ (served.key /\ Malformed(b)) => r.status = 400

\* The positions of a supplied history that lie in its last HistoryWindow
\* entries, and those of them that hold a valid entry: role user or
\* assistant and a string content that is non-empty after trimming.
IsValidAt(raw, i) ==
    /\ ~raw[i].null
    /\ raw[i].role \in {"user", "assistant"}
    /\ raw[i].isString
    /\ Trim(raw[i].content) # Empty
InWindow(raw) == {i \in 1..Len(raw) : i > Len(raw) - HistoryWindow}
ValidInWindow(raw) == {i \in InWindow(raw) : IsValidAt(raw, i)}
\* The k-th smallest position of a set of positions.
Nth(positions, k) ==
    CHOOSE i \in positions : Cardinality({j \in positions : j <= i}) = k
Forwarded(item) == [role |-> item.role, content |-> Trim(item.content)]

\* C13: for every request that reaches the model, the forwarded list starts
\* with the system instruction and ends with a user message holding the
\* trimmed prompt; the prompt is appended after the forwarded history unless
\* the last forwarded history entry is already that user message; and for a
\* request built by the panel's submit nothing is appended, so the prompt
\* stands once at the tail.
C13_PromptOnceAtTail ==
    (served.phase = "answered" /\ served.result.called) =>
        LET m == served.result.messages
            raw == RawHistory(served.body)
            prompt == Trim(served.body.prompt)
            valid == ValidInWindow(raw)
            n == Cardinality(valid)
            tail == [role |-> "user", content |-> prompt]
            already == n > 0 /\ Forwarded(raw[Nth(valid, n)]) = tail
        IN  /\ m[1] = SystemMessage
            /\ m[Len(m)] = tail
            /\ \A k \in 2..Len(m) : m[k].role # "system"
            /\ Len(m) = 1 + n + (IF already THEN 0 ELSE 1)
            /\ (\E t \in 0..MAX_HISTORY : served.body = PanelRequest(t))
                    => (already /\ Len(m) = 1 + Len(raw))

\* The handler answered the request the panel sends with a full buffer.
C13_PanelRequestForwarded ==
    /\ served.phase = "answered"
    /\ served.result.called
    /\ served.body = PanelRequest(MAX_HISTORY)
    /\ Len(served.result.messages) = MAX_HISTORY + 1
    /\ served.result.messages[MAX_HISTORY + 1] =
            [role |-> "user", content |-> TextA]

\* C16: on the 200 path the reply is the trimmed text of the first choice
\* when the model returned content, and the fallback apology when it
\* returned none (no choices, no message, no content, or a content that is
\* empty or only whitespace); the reply is never the empty string.
C16_ReplyNeverEmpty ==
    (served.phase = "answered" /\ served.result.status = 200) =>
        LET u == served.upstream
            hasContent == u.depth = "content" /\ Trim(u.content) # Empty
        IN  /\ served.result.reply =
                    (IF hasContent THEN Trim(u.content) ELSE FallbackReply)
            /\ served.result.reply # Empty

\* C17: the history entries forwarded to the model are the last
\* HistoryWindow valid entries of the supplied history, in their order:
\* invalid entries are skipped without reducing the number of valid entries
\* forwarded, and never more than HistoryWindow are forwarded.
C17_LastValidEntriesForwarded ==
    (served.phase = "answered" /\ served.result.called) =>
        LET m == served.result.messages
            raw == RawHistory(served.body)
            valid == {i \in 1..Len(raw) : IsValidAt(raw, i)}
            lastValid ==
                {i \in valid :
                    Cardinality({j \in valid : j > i}) < HistoryWindow}
            n == Cardinality(lastValid)
        IN  /\ n <= HistoryWindow
            /\ Len(m) \in {1 + n, 2 + n}
            /\ \A k \in 1..n : m[k + 1] = Forwarded(raw[Nth(lastValid, k)])

\* C14: every turn in the history buffer has a non-empty content, after any
\* sequence of submits and replies, a successful reply whose text is empty
\* or only whitespace included.
C14_NoEmptyTurn ==
    /\ \A i \in 1..Len(messagesRef) : messagesRef[i].content # Empty
    /\ \A i \in 1..Len(messages) : messages[i].content # Empty

\* C15: when the platform has no speech recognition, a microphone toggle
\* records "Voice input is not supported in this browser." and leaves the
\* recognition status, the history buffer and the in-flight flag (and the
\* pending calls and the capture) as they were.
C15_UnsupportedToggleOnlyReports ==
    [][(last'.op = "toggle" /\ ~supported)
       => /\ error' = "Voice input is not supported in this browser."
          /\ UNCHANGED <<status, messages, messagesRef, isProcessing,
                         pending, capture, recognitionRef>>]_vars

\* The microphone was toggled without recognition support while a call was
\* pending.
C15_UnsupportedToggleInFlight ==
    /\ last.op = "toggle"
    /\ ~supported
    /\ error = NotSupported
    /\ isProcessing
    /\ pending # {}
    /\ status = "idle"
    /\ Len(messagesRef) = 2

\* The positions of the fragments of an event from resultIndex on that are
\* final (or not), and the concatenation of the transcripts at a set of
\* positions, in their order.
FragmentsOf(event, final) ==
    {i \in 1..Len(event.results) :
        i > event.resultIndex /\ event.results[i].isFinal = final}
RECURSIVE Joined(_, _)
Joined(results, positions) ==
    IF positions = {} THEN Empty
    ELSE LET i == CHOOSE p \in positions : \A q \in positions : q <= p
         IN  Joined(results, positions \ {i}) \o results[i].transcript
FinalOf(event) == Joined(event.results, FragmentsOf(event, TRUE))
InterimOf(event) == Joined(event.results, FragmentsOf(event, FALSE))

\* What a recognition event does once it is known whether it counts as
\* final: an interim event replaces the interim transcript and touches
\* nothing else; a final one clears it and hands the final text to submit,
\* which, unless it rejects the text, appends it as a user turn and sends it.
ResultHandled(event, final) ==
    IF final
    THEN /\ transcript' = Empty
         /\ (Trim(FinalOf(event)) # Empty /\ ~recognitionRef.isProcessing)
                => /\ last'.call # NoCall
                   /\ last'.call.prompt = Trim(FinalOf(event))
                   /\ Last(messagesRef') =
                        CreateMessage(nextId, "user", Trim(FinalOf(event)))
    ELSE /\ transcript' = Trim(InterimOf(event))
         /\ UNCHANGED <<messages, messagesRef, pending, isProcessing>>

\* Every accepted submit clears the interim transcript and stores the
\* submitted text, not the transcript, in the buffer.
SubmitClearsTranscript ==
    (last'.op \in {"submit", "onresult"} /\ last'.call # NoCall)
        => /\ transcript' = Empty
           /\ Last(messagesRef').content = Trim(last'.text)

\* C18: a recognition event without a final fragment replaces the interim
\* transcript by the trimmed concatenation of the non-final fragments from
\* resultIndex on; an event with a final fragment clears the interim
\* transcript and invokes submit with the concatenated final text; every
\* accepted submit clears the interim transcript, which is never stored in
\* the history buffer.
C18_FinalFragmentIsSent ==
    [][/\ last'.op = "onresult"
            => ResultHandled(last'.event,
                             FragmentsOf(last'.event, TRUE) # {})
       /\ SubmitClearsTranscript]_vars

\* C18, amended: an event counts as final when the concatenated text of its
\* final fragments is non-empty; an event whose final fragments are all
\* empty is handled as an interim event.
C18_FinalTextIsSent ==
    [][/\ last'.op = "onresult"
            => ResultHandled(last'.event, FinalOf(last'.event) # Empty)
       /\ SubmitClearsTranscript]_vars

\* An event whose only final fragment is empty set the interim transcript
\* to its trimmed interim text and sent nothing.
C18_EmptyFinalKeptInterim ==
    /\ last.op = "onresult"
    /\ last.event =
        RecognitionEvent(0, <<Fragment(TRUE, Empty), Fragment(FALSE, PaddedA)>>)
    /\ transcript = TextA
    /\ last.call = NoCall
    /\ status = "listening"

\* What an error event of the platform does, given the message it records:
\* the status becomes idle, whatever it was, and the history buffer, the
\* in-flight flag and the pending calls stay as they are.
ErrorHandled(message) ==
    /\ status' = "idle"
    /\ error' = message
    /\ UNCHANGED <<messages, messagesRef, isProcessing, pending>>

\* C19: any recognition error event of the platform moves the status to
\* idle from whatever state it was in and records the event's error message
\* verbatim, leaving the history buffer and the in-flight flag unchanged.
C19_ErrorRecordedVerbatim ==
    [][last'.op = "onerror" => ErrorHandled(last'.response.message)]_vars

\* C19, amended: the event's error message is recorded verbatim when it is
\* not empty, and "Voice recognition error." is recorded when it is empty.
C19_ErrorRecordedOrGeneric ==
    [][last'.op = "onerror"
       => ErrorHandled(IF last'.response.message = ""
                       THEN "Voice recognition error."
                       ELSE last'.response.message)]_vars

\* The platform reported "no-speech" while the panel was listening and a
\* call was in flight.
C19_NoSpeechWhileInFlight ==
    /\ last.op = "onerror"
    /\ last.response.message = "no-speech"
    /\ error = "no-speech"
    /\ status = "idle"
    /\ rendered.status = "listening"
    /\ isProcessing
    /\ pending # {}

\* C20: the in-flight flag is true in every state in which a call to
\* /api/respond is pending and is never cleared while some call is still
\* pending; once every issued call has completed the flag is false, and the
\* next non-empty submit is accepted.
C20_FlagOnlyClearedWhenNonePending ==
    /\ [](pending # {} => isProcessing)
    /\ [](pending = {} => ~isProcessing)
    /\ [][(isProcessing /\ ~isProcessing') => pending' = {}]_vars
    /\ [][(/\ pending = {}
           /\ last'.op \in {"submit", "onresult"}
           /\ Trim(last'.text) # Empty)
          => last'.call # NoCall]_vars

============================================================================
